---- MODULE Spec2Model ----
(***************************************************************************)
(* EarlyAllocator<PAGE_SIZE> of arceos/modules/bump_allocator: a double    *)
(* ended bump allocator over one region [start, end).  Bytes are carved    *)
(* forward from b_pos, pages backward from p_pos.                          *)
(*                                                                         *)
(* usize is modelled with its width kept: every +, - and * of the source   *)
(* is computed modulo 2^UsizeBits.  A build with overflow checks (debug    *)
(* profile) panics where the mathematical result leaves 0..usize::MAX, a   *)
(* build without them (release profile) wraps.  Both builds are behaviours *)
(* of the model: overflow_checks is chosen once, in Init.                  *)
(***************************************************************************)
EXTENDS Integers, Naturals, Sequences, FiniteSets, TLC

\* Width of usize.  A 16-bit target keeps PAGE_SIZE = 4096 literal.
UsizeBits == 16

\* The const generic parameter PAGE_SIZE.
PAGE_SIZE == 4096

\* Number of successful allocations whose returned ranges are recorded.
MaxAllocs == 3

Modulus == 2 ^ UsizeBits
UsizeMax == Modulus - 1
IsizeMax == (Modulus \div 2) - 1

VARIABLES start, b_pos, p_pos, end,   \* the four fields of EarlyAllocator
          overflow_checks,            \* build profile: TRUE = arithmetic overflow panics
          panicked,                   \* a call has panicked; nothing runs after it
          active,                     \* init has returned (Active), else Uninitialized
          log,                        \* the ranges handed out since the latest init, in order
          last                        \* the last call: operation, arguments, result

fields == <<start, b_pos, p_pos, end>>
vars == <<start, b_pos, p_pos, end, overflow_checks, panicked, active, log, last>>

----------------------------------------------------------------------------
(* usize arithmetic: the wrapped value and whether the exact result left   *)
(* the range of usize.                                                     *)

usize_add(a, b) == [val |-> (a + b) % Modulus, ovf |-> a + b > UsizeMax]
usize_sub(a, b) == [val |-> (a - b) % Modulus, ovf |-> a < b]
usize_mul(a, b) == [val |-> (a * b) % Modulus, ovf |-> a * b > UsizeMax]

\* An overflowing operation aborts the call exactly in a checked build.
Aborts(r) == r.ovf /\ overflow_checks

RECURSIVE BitAndN(_, _, _)
BitAndN(a, b, n) ==
  IF n = 0 THEN 0
  ELSE (IF a % 2 = 1 /\ b % 2 = 1 THEN 1 ELSE 0) + 2 * BitAndN(a \div 2, b \div 2, n - 1)

\* a & b on usize
BitAnd(a, b) == BitAndN(a, b, UsizeBits)
\* !a on usize
BitNot(a) == UsizeMax - a

\* usize::is_power_of_two: exactly one bit set (false for 0)
is_power_of_two(n) == \E k \in 0 .. (UsizeBits - 1) : n = 2 ^ k

----------------------------------------------------------------------------
(* Results of calls.  AllocError has no variant other than those of the    *)
(* allocator crate; the two this file returns are NoMemory and             *)
(* InvalidParam.                                                           *)

NoMemory == "NoMemory"
InvalidParam == "InvalidParam"

Ok(v) == [kind |-> "Ok", val |-> v, err |-> "-"]
Err(e) == [kind |-> "Err", val |-> 0, err |-> e]
Unit == [kind |-> "Unit", val |-> 0, err |-> "-"]
Panic == [kind |-> "Panic", val |-> 0, err |-> "-"]

Call(op, a1, a2, res) ==
  [op |-> op, a1 |-> a1, a2 |-> a2, res |-> res]

\* A call that aborts before it wrote any field.
AbortsUnchanged(op, a1, a2) ==
  /\ panicked' = TRUE
  /\ last' = Call(op, a1, a2, Panic)
  /\ UNCHANGED <<start, b_pos, p_pos, end, overflow_checks, active, log>>

\* A call that returns without writing any field.
ReturnsUnchanged(op, a1, a2, res) ==
  /\ last' = Call(op, a1, a2, res)
  /\ UNCHANGED <<start, b_pos, p_pos, end, overflow_checks, panicked, active, log>>

----------------------------------------------------------------------------------------------------------------------------------------
(* Inputs.                                                                 *)

\* init(start, size): a low region of two pages, a low region whose end is
\* not page aligned, a region in the upper half of the address space, and a
\* region whose end start + size exceeds usize::MAX.
InitRegions == {<<0, 8192>>, <<0, 18432>>, <<49152, 8192>>, <<49152, 18432>>}

\* core::alloc::Layout: align is a non-zero power of two and size, rounded
\* up to align, does not exceed isize::MAX.
round_up_exact(n, a) == ((n + a - 1) \div a) * a
LayoutValid(l) ==
  /\ is_power_of_two(l.align)
  /\ round_up_exact(l.size, l.align) <= IsizeMax
Layouts ==
  { l \in { [size |-> 3, align |-> 1], [size |-> 8, align |-> 8],
            [size |-> 32000, align |-> 1] } : LayoutValid(l) }

\* alloc_pages(num_pages, align_pow2): accepted and rejected alignments,
\* requests that fit, requests larger than the gap, and a page count whose
\* byte size exceeds usize::MAX.
PageRequests ==
  { <<1, 4096>>, <<1, 8192>>, <<3, 4096>>, <<3, 8192>>, <<17, 4096>>,
    <<1, 0>>, <<3, 6144>>, <<1, 12288>>, <<17, 0>> }

GrowRegions == {<<8192, 4096>>, <<0, 8192>>}
FreedLayouts == {<<4096, [size |-> 8, align |-> 8]>>, <<8, [size |-> 3, align |-> 1]>>}
FreedPages == {<<4096, 1>>, <<0, 3>>}

----------------
(* Accounting queries.  Each returns a usize or aborts.                    *)

Query(r) == IF Aborts(r) THEN Panic ELSE Ok(r.val)

total_bytes == Query(usize_sub(end, start))
available_bytes == Query(usize_sub(p_pos, b_pos))
\* used_bytes that forgets the region's start
used_bytes_from_zero == Ok(b_pos)
used_bytes == Query(usize_sub(b_pos, start))
total_pages ==
  LET d == usize_sub(end, start)
  IN  IF Aborts(d) THEN Panic ELSE Ok(d.val \div PAGE_SIZE)
used_pages ==
  LET d == usize_sub(end, p_pos)
  IN  IF Aborts(d) THEN Panic ELSE Ok(d.val \div PAGE_SIZE)
available_pages == Ok(p_pos \div PAGE_SIZE)

Accounting ==
  <<total_bytes, used_bytes, available_bytes, total_pages, used_pages, available_pages>>

----------------------------------------------------------------------------
(* Operations.                                                             *)

Init ==
  /\ start = 0
  /\ b_pos = 0
  /\ p_pos = 0
  /\ end = 0
  /\ overflow_checks \in BOOLEAN
  /\ panicked = FALSE
  /\ active = FALSE
  /\ log = <<>>
  /\ last = Call("new", 0, 0, Unit)

init(s, size) ==
  /\ ~panicked
  /\ LET e == usize_add(s, size)
     IN  IF Aborts(e)
         THEN \* self.start is written before start + size aborts
              /\ start' = s
              /\ panicked' = TRUE
              /\ last' = Call("init", s, size, Panic)
              /\ UNCHANGED <<b_pos, p_pos, end, overflow_checks, active, log>>
         ELSE /\ start' = s
              /\ end' = e.val
              /\ b_pos' = s
              /\ p_pos' = e.val
              /\ active' = TRUE
              /\ log' = <<>>
              /\ last' = Call("init", s, size, Unit)
              /\ UNCHANGED <<overflow_checks, panicked>>

\* add_memory that appends the new region to the managed one
add_memory_extends(s, size) ==
  /\ ~panicked
  /\ end' = usize_add(end, size).val
  /\ last' = Call("add_memory", s, size, Unit)
  /\ UNCHANGED <<start, b_pos, p_pos, overflow_checks, panicked, active, log>>

add_memory(s, size) ==
  /\ ~panicked
  /\ ReturnsUnchanged("add_memory", s, size, Err(NoMemory))

\* alloc that bumps from b_pos without rounding it up to align
alloc_unaligned(size, align) ==
  /\ ~panicked
  /\ LET new_pos == b_pos
         s == usize_add(new_pos, size)
     IN  IF Aborts(s)
         THEN AbortsUnchanged("alloc", size, align)
         ELSE IF s.val > p_pos
         THEN ReturnsUnchanged("alloc", size, align, Err(NoMemory))
         ELSE /\ b_pos' = s.val
              /\ IF new_pos = 0
                 THEN /\ panicked' = TRUE
                      /\ last' = Call("alloc", size, align, Panic)
                      /\ UNCHANGED log
                 ELSE /\ Len(log) < MaxAllocs
                      /\ log' = Append(log, [kind |-> "bytes", addr |-> new_pos,
                                             len |-> size, align |-> align])
                      /\ last' = Call("alloc", size, align, Ok(new_pos))
                      /\ UNCHANGED panicked
              /\ UNCHANGED <<start, p_pos, end, overflow_checks, active>>

\* alloc that writes b_pos before it compares the new position with p_pos
alloc_commits_first(size, align) ==
  /\ ~panicked
  /\ LET align_mask == align - 1
         t == usize_add(b_pos, align_mask)
         new_pos == BitAnd(t.val, BitNot(align_mask))
         s == usize_add(new_pos, size)
     IN  IF Aborts(t) \/ Aborts(s)
         THEN AbortsUnchanged("alloc", size, align)
         ELSE /\ b_pos' = s.val
              /\ IF s.val > p_pos
                 THEN /\ last' = Call("alloc", size, align, Err(NoMemory))
                      /\ UNCHANGED <<panicked, log>>
                 ELSE IF new_pos = 0
                 THEN /\ panicked' = TRUE
                      /\ last' = Call("alloc", size, align, Panic)
                      /\ UNCHANGED log
                 ELSE /\ Len(log) < MaxAllocs
                      /\ log' = Append(log, [kind |-> "bytes", addr |-> new_pos,
                                             len |-> size, align |-> align])
                      /\ last' = Call("alloc", size, align, Ok(new_pos))
                      /\ UNCHANGED panicked
              /\ UNCHANGED <<start, p_pos, end, overflow_checks, active>>

alloc(size, align) ==
  /\ ~panicked
  /\ LET align_mask == align - 1
         t == usize_add(b_pos, align_mask)
         new_pos == BitAnd(t.val, BitNot(align_mask))
         s == usize_add(new_pos, size)
     IN  IF Aborts(t) \/ Aborts(s)
         THEN AbortsUnchanged("alloc", size, align)
         ELSE IF s.val > p_pos
         THEN ReturnsUnchanged("alloc", size, align, Err(NoMemory))
         ELSE /\ b_pos' = s.val
              /\ IF new_pos = 0
                 THEN \* NonNull::new(null).unwrap() aborts after b_pos is written
                      /\ panicked' = TRUE
                      /\ last' = Call("alloc", size, align, Panic)
                      /\ UNCHANGED log
                 ELSE /\ Len(log) < MaxAllocs
                      /\ log' = Append(log, [kind |-> "bytes", addr |-> new_pos,
                                             len |-> size, align |-> align])
                      /\ last' = Call("alloc", size, align, Ok(new_pos))
                      /\ UNCHANGED panicked
              /\ UNCHANGED <<start, p_pos, end, overflow_checks, active>>

\* dealloc that frees the bytes-used area, as the type's doc comment describes
dealloc_frees_bytes(ptr, layout) ==
  /\ ~panicked
  /\ b_pos' = start
  /\ last' = Call("dealloc", ptr, layout.size, Unit)
  /\ UNCHANGED <<start, p_pos, end, overflow_checks, panicked, active, log>>

dealloc(ptr, layout) ==
  /\ ~panicked
  /\ ReturnsUnchanged("dealloc", ptr, layout.size, Unit)

\* the alignment check without the power-of-two test
align_accepted_any_multiple(align_pow2) == align_pow2 % PAGE_SIZE = 0

\* the alignment argument is a multiple of PAGE_SIZE whose quotient is a
\* power of two
align_accepted(align_pow2) ==
  /\ align_pow2 % PAGE_SIZE = 0
  /\ is_power_of_two(align_pow2 \div PAGE_SIZE)

\* alloc_pages that rounds the new page cursor down to the requested align
alloc_pages_aligned(num_pages, align_pow2) ==
  /\ ~panicked
  /\ IF ~align_accepted(align_pow2)
     THEN ReturnsUnchanged("alloc_pages", num_pages, align_pow2, Err(InvalidParam))
     ELSE LET m == usize_mul(num_pages, PAGE_SIZE)
              p == usize_sub(p_pos, m.val)
              down == p.val - (p.val % align_pow2)
          IN  IF Aborts(m) \/ Aborts(p)
              THEN AbortsUnchanged("alloc_pages", num_pages, align_pow2)
              ELSE IF down < b_pos
              THEN ReturnsUnchanged("alloc_pages", num_pages, align_pow2, Err(NoMemory))
              ELSE /\ Len(log) < MaxAllocs
                   /\ p_pos' = down
                   /\ log' = Append(log, [kind |-> "pages", addr |-> down,
                                          len |-> num_pages * PAGE_SIZE,
                                          align |-> align_pow2])
                   /\ last' = Call("alloc_pages", num_pages, align_pow2, Ok(down))
                   /\ UNCHANGED <<start, b_pos, end, overflow_checks, panicked, active>>

alloc_pages(num_pages, align_pow2) ==
  /\ ~panicked
  /\ IF ~align_accepted(align_pow2)
     THEN ReturnsUnchanged("alloc_pages", num_pages, align_pow2, Err(InvalidParam))
     ELSE LET m == usize_mul(num_pages, PAGE_SIZE)
              p == usize_sub(p_pos, m.val)
          IN  IF Aborts(m) \/ Aborts(p)
              THEN AbortsUnchanged("alloc_pages", num_pages, align_pow2)
              ELSE IF p.val < b_pos
              THEN ReturnsUnchanged("alloc_pages", num_pages, align_pow2, Err(NoMemory))
              ELSE /\ Len(log) < MaxAllocs
                   /\ p_pos' = p.val
                   /\ log' = Append(log, [kind |-> "pages", addr |-> p.val,
                                          len |-> num_pages * PAGE_SIZE,
                                          align |-> align_pow2])
                   /\ last' = Call("alloc_pages", num_pages, align_pow2, Ok(p.val))
                   /\ UNCHANGED <<start, b_pos, end, overflow_checks, panicked, active>>

dealloc_pages(pos, num_pages) ==
  /\ ~panicked
  /\ ReturnsUnchanged("dealloc_pages", pos, num_pages, Unit)

Next ==
  \/ \E r \in InitRegions : init(r[1], r[2])
  \/ \E r \in GrowRegions : add_memory(r[1], r[2])
  \/ \E l \in Layouts : alloc(l.size, l.align)
  \/ \E f \in FreedLayouts : dealloc(f[1], f[2])
  \/ \E r \in PageRequests : alloc_pages(r[1], r[2])
  \/ \E f \in FreedPages : dealloc_pages(f[1], f[2])

Spec == Init /\ [][Next]_vars

----------------------------------------------------------------------------
(* Vocabulary of the properties.                                           *)

\* The error kinds by their names in the specification: exhaustion is what
\* alloc and alloc_pages return when the cursors would cross.
ResourceExhausted == NoMemory
InvalidParameter == InvalidParam

Active == active /\ ~panicked

ByteAllocs == { i \in 1 .. Len(log) : log[i].kind = "bytes" }
PageAllocs == { i \in 1 .. Len(log) : log[i].kind = "pages" }

\* [a.addr, a.addr + a.len) and [b.addr, b.addr + b.len) share no address
Disjoint(a, b) == a.addr + a.len <= b.addr \/ b.addr + b.len <= a.addr

CursorsOrdered == start <= b_pos /\ b_pos <= p_pos /\ p_pos <= end

----------------------------------------------------------------------------
\* C1: in every state reached by init followed by any calls, the cursors
\* satisfy start <= b_pos <= p_pos <= end.  Stated for the regions that lie
\* within the address space (start <= start + size = end): for a region
\* whose end wraps the ordering is lost by init itself.
C1_CursorsOrdered == (Active /\ start <= end) => CursorsOrdered

\* C2: the byte ranges of any two successful alloc calls since init are
\* disjoint and every returned address is a multiple of the requested align.
C2_BytesDisjointAligned ==
  active =>
    /\ \A i, j \in ByteAllocs : i < j => Disjoint(log[i], log[j])
    /\ \A i \in ByteAllocs : log[i].addr % log[i].align = 0

\* C3: in the Active state alloc(size, align) returns NoMemory exactly when
\* round_up(b_pos, align) + size > p_pos, and otherwise returns
\* round_up(b_pos, align) and sets b_pos to round_up(b_pos, align) + size.
C3_AllocContract ==
  [][ (Active /\ last'.op = "alloc") =>
        LET size == last'.a1
            candidate == round_up_exact(b_pos, last'.a2)
        IN  IF candidate + size > p_pos
            THEN last'.res = Err(ResourceExhausted) /\ fields' = fields
            ELSE last'.res = Ok(candidate) /\ b_pos' = candidate + size ]_vars

\* C4: the page runs of any two successful alloc_pages calls since init are
\* disjoint and each later call returns an address <= every earlier one.
C4_PagesDisjointDescending ==
  active =>
    \A i, j \in PageAllocs :
      i < j => Disjoint(log[i], log[j]) /\ log[j].addr <= log[i].addr

\* C5: every address returned by a successful alloc_pages call is a multiple
\* of PAGE_SIZE, whatever region init was given.
C5_PagesAligned ==
  active => \A i \in PageAllocs : log[i].addr % PAGE_SIZE = 0

\* C6: alloc_pages(count, align) returns InvalidParam whenever align is not
\* a multiple of PAGE_SIZE or align / PAGE_SIZE is not a power of two, for
\* every count and in every state, also when the request would not fit.
C6_InvalidAlignRejected ==
  (/\ last.op = "alloc_pages"
   /\ \/ last.a2 % PAGE_SIZE /= 0
      \/ ~is_power_of_two(last.a2 \div PAGE_SIZE))
  => last.res = Err(InvalidParameter)

\* C6 witness: a rejected request whose page count exceeds the gap between
\* the cursors of an Active allocator.
C6_Witness ==
  /\ Active
  /\ last.op = "alloc_pages"
  /\ last.res = Err(InvalidParameter)
  /\ last.a1 * PAGE_SIZE > p_pos - b_pos
  /\ p_pos >= b_pos

\* C7: in the Active state alloc_pages(count, align) with an accepted align
\* returns NoMemory exactly when p_pos - count * PAGE_SIZE < b_pos, and
\* otherwise sets p_pos to p_pos - count * PAGE_SIZE and returns it.
C7_AllocPagesContract ==
  [][ (/\ Active
       /\ last'.op = "alloc_pages"
       /\ last'.a2 % PAGE_SIZE = 0
       /\ is_power_of_two(last'.a2 \div PAGE_SIZE)) =>
        LET candidate == p_pos - last'.a1 * PAGE_SIZE
        IN  IF candidate < b_pos
            THEN last'.res = Err(ResourceExhausted) /\ fields' = fields
            ELSE last'.res = Ok(candidate) /\ p_pos' = candidate ]_vars

C9_AccountingAfterInit ==
  (last.op = "init" /\ last.res = Unit) =>
    /\ used_bytes = Ok(0)
    /\ available_bytes = Ok(last.a2)
    /\ total_bytes = Ok(last.a2)
    /\ used_pages = Ok(0)
    /\ total_pages = Ok(last.a2 \div PAGE_SIZE)

\* C9 witness: init has returned for a region that does not start at 0.
C9_Witness == last.op = "init" /\ last.res = Unit /\ start > 0

\* C10 as stated: add_memory fails, leaves the fields unchanged, and its
\* error kind differs from both ResourceExhausted and InvalidParameter.
C10_GrowDistinctKind ==
  [][ last'.op = "add_memory" =>
        /\ last'.res.kind = "Err"
        /\ fields' = fields
        /\ last'.res.err \notin {ResourceExhausted, InvalidParameter} ]_vars

\* C10 amended: add_memory fails in every state and for every argument,
\* leaves the fields unchanged, and returns NoMemory, the kind exhausted
\* allocations return, which differs from InvalidParam.
C10_GrowFailsNoMemory ==
  [][ last'.op = "add_memory" =>
        /\ last'.res = Err(ResourceExhausted)
        /\ last'.res.err /= InvalidParameter
        /\ fields' = fields ]_vars

\* C10 witness: add_memory was called on an allocator that has handed out memory.
C10_Witness == last.op = "add_memory" /\ Active /\ Len(log) > 0
\* C11: after init, every later call leaves b_pos' >= b_pos and
\* p_pos' <= p_pos, so used_bytes and used_pages never shrink.
C11_CursorsMonotone ==
  [][ (Active /\ last'.op /= "init") =>
        b_pos' >= b_pos /\ p_pos' <= p_pos ]_vars

\* C12: with PAGE_SIZE = 4096, init(0, 8192) leaves available_bytes 8192;
\* then alloc(8, 8) returns 0 and used_bytes is 8; then alloc_pages(1, 4096)
\* returns 4096 and leaves available_bytes 4088 and used_pages 1; then
\* alloc_pages(1, 4096) returns NoMemory.  Each step is identified by the
\* fields the steps before it leave.
C12_Scenario ==
  [][ /\ (last'.op = "init" /\ last'.a1 = 0 /\ last'.a2 = 8192) =>
           (last'.res = Unit /\ available_bytes' = Ok(8192))
      /\ (/\ ~panicked
          /\ fields = <<0, 0, 8192, 8192>>
          /\ last'.op = "alloc" /\ last'.a1 = 8 /\ last'.a2 = 8) =>
           (last'.res = Ok(0) /\ used_bytes' = Ok(8))
      /\ (/\ ~panicked
          /\ fields = <<0, 8, 8192, 8192>>
          /\ last'.op = "alloc_pages" /\ last'.a1 = 1 /\ last'.a2 = 4096) =>
           (/\ last'.res = Ok(4096)
            /\ available_bytes' = Ok(4088)
            /\ used_pages' = Ok(1))
      /\ (/\ ~panicked
          /\ fields = <<0, 8, 4096, 8192>>
          /\ last'.op = "alloc_pages" /\ last'.a1 = 1 /\ last'.a2 = 4096) =>
           last'.res = Err(ResourceExhausted) ]_vars

\* C13: in the Active state every alloc and alloc_pages call returns an
\* address or an error kind, never aborting, and the accounting queries
\* abort in no state a call has returned to.
C13_NoPanic ==
  [][ /\ (Active /\ last'.op \in {"alloc", "alloc_pages"}) =>
           last'.res.kind \in {"Ok", "Err"}
      /\ ~panicked' =>
           \A i \in 1 .. Len(Accounting') : Accounting'[i].kind = "Ok" ]_vars
\* C14: every successful alloc(size, align) returns the smallest multiple
\* of align that is >= the b_pos it found: the gap to the returned address
\* is less than align, and zero when b_pos is already a multiple of align.
C14_Packed ==
  [][ (last'.op = "alloc" /\ last'.res.kind = "Ok") =>
        LET addr == last'.res.val
            align == last'.a2
        IN  /\ addr >= b_pos
            /\ addr % align = 0
            /\ addr - b_pos < align
            /\ (b_pos % align = 0 => addr = b_pos)
            /\ \A m \in b_pos .. addr : m % align = 0 => m = addr ]_vars

\* C14 witness: two byte allocations in a row, the second placed after an
\* alignment gap.
C14_Witness ==
  /\ last.op = "alloc" /\ last.res.kind = "Ok"
  /\ Len(log) >= 2
  /\ log[Len(log) - 1].kind = "bytes"
  /\ log[Len(log)].addr = last.res.val
  /\ log[Len(log)].addr > log[Len(log) - 1].addr + log[Len(log) - 1].len

\* C16: an alloc or alloc_pages call that returns an error leaves start,
\* b_pos, p_pos and end as they were.
C16_FailureLeavesFields ==
  [][ (last'.op \in {"alloc", "alloc_pages"} /\ last'.res.kind = "Err") =>
        fields' = fields ]_vars

\* C16 witness: an Active allocator that has handed out memory has returned
\* NoMemory to an alloc call, and a smaller request would still fit.
C16_Witness ==
  /\ Active
  /\ last.op = "alloc" /\ last.res = Err(ResourceExhausted)
  /\ Len(log) > 0
  /\ p_pos - b_pos >= 8
\* C15, the half about calls that run one at a time: when every call runs
\* atomically no state is reached in which the cursors have crossed or two
\* successful calls were handed overlapping ranges.  Stated for the regions
\* that lie within the address space.
C15_AtomicNeverCrosses ==
  (Active /\ start <= end) =>
    /\ b_pos <= p_pos
    /\ \A i, j \in 1 .. Len(log) : i < j => Disjoint(log[i], log[j])

\* C17: no byte range returned by alloc overlaps a page run returned by
\* alloc_pages, and every returned range lies inside [start, end).  Stated
\* for the regions that lie within the address space.
C17_RangesInsideRegion ==
  (active /\ start <= end) =>
    /\ \A i \in ByteAllocs : \A j \in PageAllocs : Disjoint(log[i], log[j])
    /\ \A i \in 1 .. Len(log) :
         start <= log[i].addr /\ log[i].addr + log[i].len <= end

RECURSIVE PageBytes(_)
\* the sum of count * PAGE_SIZE over the page runs among the first n entries
PageBytes(n) ==
  IF n = 0 THEN 0
  ELSE PageBytes(n - 1) + (IF log[n].kind = "pages" THEN log[n].len ELSE 0)

\* C18: in every state after init, used_bytes + available_bytes +
\* used_pages * PAGE_SIZE = total_bytes, and used_pages * PAGE_SIZE is the
\* sum of count * PAGE_SIZE over the successful alloc_pages calls since init.
C18_AccountingConserved ==
  (Active /\ \A i \in 1 .. Len(Accounting) : Accounting[i].kind = "Ok") =>
    /\ used_bytes.val + available_bytes.val + used_pages.val * PAGE_SIZE
         = total_bytes.val
    /\ used_pages.val * PAGE_SIZE = PageBytes(Len(log))

\* C20: before init, with all four fields zero, every alloc with size > 0
\* and every alloc_pages with count > 0 and an accepted align returns
\* NoMemory and leaves the four fields zero.
C20_UninitializedRefuses ==
  [][ (/\ ~active /\ ~panicked
       /\ fields = <<0, 0, 0, 0>>
       /\ last'.a1 > 0
       /\ \/ last'.op = "alloc"
          \/ (/\ last'.op = "alloc_pages"
              /\ last'.a2 % PAGE_SIZE = 0
              /\ is_power_of_two(last'.a2 \div PAGE_SIZE))) =>
        (last'.res = Err(ResourceExhausted) /\ fields' = <<0, 0, 0, 0>>) ]_vars
\* The page cursors a call can leave: p_pos lowered by a whole number of
\* pages, modulo the width of usize.
PositionCandidates ==
  { (p_pos - k * PAGE_SIZE) % Modulus : k \in 0 .. ((Modulus \div PAGE_SIZE) - 1) }

\* The ways a call can end: it returns the page cursor it leaves, or it
\* returns an error or aborts and leaves the page cursor where it was.
OutcomeCandidates ==
  { <<v, Ok(v)>> : v \in PositionCandidates }
    \cup { <<p_pos, r>> : r \in {Err(NoMemory), Err(InvalidParam), Panic} }

\* What alloc_pages(n, a) does from the current state: the p_pos it leaves
\* with the result it gives, and whether it leaves the other fields alone.
PagesOutcome(n, a) ==
  [ ends |-> { o \in OutcomeCandidates :
                 ENABLED (alloc_pages(n, a) /\ p_pos' = o[1] /\ last'.res = o[2]) },
    keeps |-> ENABLED (alloc_pages(n, a)
                       /\ start' = start /\ b_pos' = b_pos /\ end' = end) ]

\* C19: from any state, alloc_pages(count, a1) and alloc_pages(count, a2)
\* with two accepted aligns give the same result and the same fields: the
\* align argument is checked and never applied.
C19_AlignNotApplied ==
  \A r1, r2 \in PageRequests :
    (/\ r1[1] = r2[1] /\ r1[2] < r2[2]
     /\ r1[2] % PAGE_SIZE = 0 /\ is_power_of_two(r1[2] \div PAGE_SIZE)
     /\ r2[2] % PAGE_SIZE = 0 /\ is_power_of_two(r2[2] \div PAGE_SIZE)) =>
      /\ PagesOutcome(r1[1], r1[2]) = PagesOutcome(r2[1], r2[2])
      /\ ENABLED alloc_pages(r2[1], r2[2]) => PagesOutcome(r2[1], r2[2]).ends /= {}

\* C19 witness: a successful alloc_pages with align above PAGE_SIZE has
\* returned an address that is not a multiple of that align.
C19_Witness ==
  /\ last.op = "alloc_pages" /\ last.res.kind = "Ok"
  /\ last.a2 > PAGE_SIZE
  /\ last.res.val % last.a2 /= 0
====
